---- MODULE Spec2Model ----
(***************************************************************************)
(* QuestPlaySDK (src/questplay-sdk.js): the registry of embedded games and *)
(* the postMessage protocol between the host page and the game iframes.    *)
(*                                                                         *)
(* The file holds two variants of the class.  Variant 1 (lines 6-198)      *)
(* registers one "message" listener per game and checks the origin of a   *)
(* message; variant 2 (lines 199-425) registers one listener in the        *)
(* constructor and routes a message by its source window.  `variant` is    *)
(* fixed by Init and selects which class the host page has loaded.         *)
(*                                                                         *)
(* Variant 2 has an optional inspector (lines 341-410) that logs what is   *)
(* sent and received per game.  Spec is a page without it; SpecInspector is *)
(* a page that loads variant 2 with the inspector and embeds one game.      *)
(*                                                                         *)
(* One action is one run-to-completion task of the page's event loop: a    *)
(* host call (addGame up to its await, removeGame), the continuation of an *)
(* addGame after its await, an iframe's load event, a message event.       *)
(***************************************************************************)
EXTENDS Integers, Sequences, FiniteSets, TLC

VARIABLES
    variant,    \* 1 or 2: which class of the file is loaded
    family,     \* the family of configurations the host page uses (ConfigsOf)
    games,      \* this.games: a function gameId -> entry, on the registered ids
    iframes,    \* every iframe element created so far, with its onload closure
    listeners,  \* the "message" listeners of window, in registration order
    pending,    \* addGame calls suspended at `await getUserBalance(userId)`
    gPend,      \* history, parallel to pending: removeGame(id) was called meanwhile
    gIfr,       \* history, parallel to iframes: see GhostOfIframe
    inspector,  \* this._inspector of variant 2: see InspectorOff, InspectorOn
    last        \* history: what the most recent task did (see Quiet)

vars == <<variant, family, games, iframes, listeners, pending, gPend, gIfr, inspector, last>>

----------------------------------------------------------------------------
(* Bounds of the model *)

\* The addGame calls that pass validation: each is suspended at its await or
\* has created its iframe.
MaxIframes == 2

\* The entries one log of the inspector holds at most: a task that would
\* make a log longer is not taken.
MaxLog == 6

----------------------------------------------------------------------------
(* Values *)

GameIds == {"g1", "g2"}

DefaultLocale == "en-US"
DefaultCurrency == "TZS"

\* The balance a working getUserBalance resolves to.
ResolvedBalance == 5

\* URL strings a host may pass as iframeUrl.  "" stands for a missing field.
UrlA == "https://a.test/game"
UrlB == "https://b.test/game"
UrlBad == "httpfoo"
UrlRel == "/game"

OriginA == "https://a.test"
OriginB == "https://b.test"
Origins == {OriginA, OriginB}

\* String.prototype.startsWith("http") on the URL strings above.
startsWithHttp(u) == u \in {UrlA, UrlB, UrlBad}

\* The URL parser without a base URL (new URL(u), and the targetOrigin of
\* Window.postMessage): only an absolute URL parses.
URLParses(u) == u \in {UrlA, UrlB}

\* new URL(u).origin, for a URL that parses.
URLOrigin(u) == IF u = UrlA THEN OriginA ELSE OriginB

\* document.getElementById(containerId): the page has one container, "c1".
ContainerExists(c) == c = "c1"

----------------------------------------------------------------------------
(* Inputs of addGame *)

\* The field fetch of a configuration is getUserBalance as the host supplies
\* it: "resolves", an async function that resolves; "rejects", one that
\* rejects; "throws", a function that throws before it returns a promise;
\* "notfn", a value that is no function.

Config(gameId, containerId, iframeUrl, userId, fetch, locale, currency, ogl, tenantName, callbackUrl) ==
    [gameId |-> gameId, containerId |-> containerId, iframeUrl |-> iframeUrl,
     userId |-> userId, fetch |-> fetch, locale |-> locale, currency |-> currency,
     onGameLoad |-> ogl, tenantName |-> tenantName, callbackUrl |-> callbackUrl]

\* The configuration the others vary: every required field given, the
\* optional locale and currency omitted, every callback given.
BaseConfig(g) ==
    Config(g, "c1", UrlA, "u1", "resolves", "", "", TRUE, "t1", "https://host.test/cb")

\* One host page draws its addGame configurations from one family, so that a
\* behaviour combines the values of one concern and the model stays small.
\* Every family holds the base of either id.
\*   "origins"  both ids on both origins;
\*   "balance"  g1 with a getUserBalance that rejects or throws;
\*   "optional" g1 with locale or currency given, or onGameLoad omitted;
\*   "defects"  g1 with one required field missing ("") or malformed.
\* The page with the inspector embeds one game: family "single", the base of
\* g1 alone.
Families == {"origins", "balance", "optional", "defects"}

Bases == { BaseConfig(g) : g \in GameIds }

ConfigsOf(fam) ==
    LET b == BaseConfig("g1")
    IN  CASE fam = "origins" ->
               { [BaseConfig(g) EXCEPT !.iframeUrl = u] : g \in GameIds, u \in {UrlA, UrlB} }
          [] fam = "balance" ->
               Bases \cup { [b EXCEPT !.fetch = "rejects"], [b EXCEPT !.fetch = "throws"] }
          [] fam = "optional" ->
               Bases \cup { [b EXCEPT !.locale = "sw-TZ"], [b EXCEPT !.currency = "USD"],
                            [b EXCEPT !.onGameLoad = FALSE] }
          [] fam = "single" -> { b }
          [] OTHER ->
               Bases \cup { [b EXCEPT !.gameId = ""],
                            [b EXCEPT !.containerId = ""],
                            [b EXCEPT !.containerId = "nope"],
                            [b EXCEPT !.iframeUrl = ""],
                            [b EXCEPT !.iframeUrl = UrlRel],
                            [b EXCEPT !.iframeUrl = UrlBad],
                            [b EXCEPT !.userId = ""],
                            [b EXCEPT !.fetch = "notfn"],
                            [b EXCEPT !.tenantName = ""],
                            [b EXCEPT !.callbackUrl = ""] }

----------------------------------------------------------------------------
(* Inputs of the message listener *)

MsgActions == {"gameLoaded", "gameResult", "updateLocaleAndCurrency", "error"}

\* event.data.  isNull: the sender posted null/undefined.  action "" : no
\* action field.  locale/currency "" : the field is absent.
Payload(a, l, c) == [isNull |-> FALSE, action |-> a, locale |-> l, currency |-> c]
NullData == [isNull |-> TRUE, action |-> "", locale |-> "", currency |-> ""]

Payloads ==
    { Payload(a, "", "") : a \in MsgActions \cup {""} }
    \cup { Payload("updateLocaleAndCurrency", "fr-FR", ""),
           Payload("updateLocaleAndCurrency", "", "EUR"),
           Payload("updateLocaleAndCurrency", "fr-FR", "EUR") }
    \cup { NullData }

----------------------------------------------------------------------------
(* Records *)

\* An entry of this.games.  Variant 1 stores neither balance nor ready (lines
\* 86-94); there the two fields stay 0 and FALSE and nothing reads them.  The
\* callbacks onError/onGameResult of the entry are those of the addGame call
\* that created `iframe`; a callback invocation is recorded with that number.
Entry(ifr, url, userId, locale, currency, balance) ==
    [iframe |-> ifr, iframeUrl |-> url, userId |-> userId,
     locale |-> locale, currency |-> currency, balance |-> balance, ready |-> FALSE]

\* An iframe element with the closure of its onload handler (lines 97-110,
\* 278-291).  attached: the element is in the document, so contentWindow is
\* not null.
Iframe(gameId, url, userId, balance, ogl) ==
    [gameId |-> gameId, src |-> url, userId |-> userId, balance |-> balance,
     onGameLoad |-> ogl, attached |-> TRUE]

\* History of one iframe: its addGame's getUserBalance failed; removeGame of
\* its id was called after its addGame began and before its first load event;
\* a load event of it has been handled.
GhostOfIframe(failed, removed) ==
    [fetchFailed |-> failed, removeIssued |-> removed, loaded |-> FALSE]

\* Effects of a task, in order: a message posted to an iframe's window, or a
\* host callback invoked.
Send(to, action, bal) == [kind |-> "send", who |-> to, what |-> action, bal |-> bal]
Callback(owner, name) == [kind |-> "cb", who |-> owner, what |-> name, bal |-> 0]

\* What the most recent task was and did.  The inputs of a message event
\* are not kept: a property of a message event quantifies over them.
Quiet ==
    [op |-> "init", gameId |-> "", iframe |-> 0, outcome |-> "", effects |-> <<>>,
     threw |-> FALSE, cfgOk |-> TRUE]

----------------------------------------------------------------------------
(* The inspector of variant 2 (lines 341-410) *)

\* Lines 200-214: without options.inspector the constructor leaves
\* this._inspector undefined and every `this._inspector?.` call does nothing;
\* with it, _initInspector starts with no log.
InspectorOff == [enabled |-> FALSE, games |-> << >>]
InspectorOn == [enabled |-> TRUE, games |-> << >>]

\* An element of logs (lines 376-380, 385-388), without its time and data.
LogEntry(dir, action) == [dir |-> dir, action |-> action]

\* Array.prototype.unshift: the new element becomes the first.
Unshift(log, e) == << e >> \o log

\* Lines 370-373: _inspector.addGame(id) gives id an empty log, replacing
\* the log id had.
InspectorAddGame(insp, id) ==
    IF insp.enabled
    THEN [insp EXCEPT !.games = [g \in DOMAIN @ \cup {id} |-> IF g = id THEN << >> ELSE @[g]]]
    ELSE insp

\* Lines 374-382: _inspector.log(id, dir, action, data); `?.` skips an id
\* without a log.
InspectorLog(insp, id, dir, action) ==
    IF insp.enabled /\ id \in DOMAIN insp.games
    THEN [insp EXCEPT !.games[id] = Unshift(@, LogEntry(dir, action))]
    ELSE insp

\* Lines 383-390: _inspector.error(id, msg); the entry's action is the text.
InspectorError(insp, id, msg) == InspectorLog(insp, id, "ERR", msg)

\* Line 402: _renderInspector shows logs.slice(0, 5), the only place where
\* the length of a log is limited.
RenderCap == 5

\* The bound MaxLog on the logs of an inspector.
LogsWithin(insp) == \A g \in DOMAIN insp.games : Len(insp.games[g]) <= MaxLog

----------------------------------------------------------------------------
(* addGame *)

\* The fields the README marks "required" are present, the container is on
\* the page and the URL is an absolute one.  History only: recorded with an
\* addGame call, read by no action.
RequiredFieldsOk(cfg) ==
    /\ cfg.gameId # ""
    /\ cfg.containerId # "" /\ ContainerExists(cfg.containerId)
    /\ cfg.iframeUrl # "" /\ URLParses(cfg.iframeUrl)
    /\ cfg.userId # ""
    /\ cfg.fetch # "notfn"

\* Variant 1, lines 46-67: the checks before the await, in order.
ValidateV1(cfg) ==
    IF cfg.gameId = "" THEN "invalid"
    ELSE IF cfg.gameId \in DOMAIN games THEN "duplicate"
    ELSE IF ~ContainerExists(cfg.containerId) THEN "noContainer"
    ELSE IF cfg.iframeUrl = "" \/ ~startsWithHttp(cfg.iframeUrl) THEN "invalid"
    ELSE IF cfg.fetch = "notfn" THEN "invalid"
    ELSE "ok"

\* Variant 2, lines 236-245.
ValidateV2(cfg) ==
    IF \/ cfg.tenantName = "" \/ cfg.gameId = "" \/ cfg.containerId = ""
       \/ cfg.iframeUrl = "" \/ cfg.callbackUrl = "" THEN "invalid"
    ELSE IF cfg.gameId \in DOMAIN games THEN "duplicate"
    ELSE IF ~ContainerExists(cfg.containerId) THEN "noContainer"
    ELSE "ok"

Validate(cfg) == IF variant = 1 THEN ValidateV1(cfg) ELSE ValidateV2(cfg)

\* `await getUserBalance(userId)` suspends the call iff getUserBalance returns:
\* a call that throws (or a call of a non-function, in variant 2) lands in the
\* catch block at once, and addGame runs on without yielding.
Suspends(fetch) == fetch \in {"resolves", "rejects"}

\* The try/catch without `balance = 0` in the catch block.
BalanceAfterFetch_noReset(fetch) == ResolvedBalance

\* Lines 70-76 and 247-252: the balance after the try/catch.
BalanceAfterFetch(fetch) == IF fetch = "resolves" THEN ResolvedBalance ELSE 0

\* The entry with `locale` stored as given, without `|| this.defaultLocale`.
LocaleOrDefault_asGiven(l) == l

\* Lines 90-91, 268-269: `locale || this.defaultLocale`.
LocaleOrDefault(l) == IF l = "" THEN DefaultLocale ELSE l
CurrencyOrDefault(c) == IF c = "" THEN DefaultCurrency ELSE c

\* this.games[gameId] = {...} (lines 86, 261): adds the key or overwrites it.
Register(gs, id, entry) ==
    [g \in DOMAIN gs \cup {id} |-> IF g = id THEN entry ELSE gs[g]]

\* addGame with its registration moved before the await: the entry is in the
\* registry, with no iframe yet (0), while getUserBalance is awaited.
GamesAtAwait_registered(gs, call) ==
    Register(gs, call.gameId,
             Entry(0, call.iframeUrl, call.userId,
                   LocaleOrDefault(call.locale), CurrencyOrDefault(call.currency), 0))

\* Lines 69-76, 247-252: the registry when addGame suspends at its await.
\* Registration (lines 86, 261) comes after the await, so it is as it was.
GamesAtAwait(gs, call) == gs

\* What addGame keeps of its config across the await.
CallOf(cfg) ==
    [gameId |-> cfg.gameId, iframeUrl |-> cfg.iframeUrl, userId |-> cfg.userId,
     fetch |-> cfg.fetch, locale |-> cfg.locale, currency |-> cfg.currency,
     onGameLoad |-> cfg.onGameLoad]

\* Lines 78-113 and 254-291: the part of addGame after the try/catch.  The new
\* iframe is number Len(iframes) + 1.
CreateGame(call, removed, rec) ==
    LET n == Len(iframes) + 1
        balance == BalanceAfterFetch(call.fetch)
        entry == Entry(n, call.iframeUrl, call.userId,
                       LocaleOrDefault(call.locale), CurrencyOrDefault(call.currency),
                       IF variant = 1 THEN 0 ELSE balance)
    IN  /\ iframes' = Append(iframes,
                        Iframe(call.gameId, call.iframeUrl, call.userId, balance, call.onGameLoad))
        /\ gIfr' = Append(gIfr, GhostOfIframe(call.fetch # "resolves", removed))
        /\ games' = Register(games, call.gameId, entry)
        /\ listeners' = IF variant = 1 THEN Append(listeners, call.gameId) ELSE listeners
        /\ inspector' = InspectorAddGame(inspector, call.gameId)
        /\ last' = [rec EXCEPT !.gameId = call.gameId, !.iframe = n, !.outcome = "created"]

\* addGame(cfg) (lines 34-114, 220-292), up to its return or its await.
addGame(cfg) ==
    LET out == Validate(cfg)
        rec == [Quiet EXCEPT !.op = "addGame", !.gameId = cfg.gameId,
                             !.cfgOk = RequiredFieldsOk(cfg)]
    IN  IF out # "ok"
        THEN /\ last' = [rec EXCEPT !.outcome = out]
             /\ UNCHANGED <<variant, family, games, iframes, listeners, pending, gPend, gIfr,
                             inspector>>
        ELSE /\ Len(iframes) + Len(pending) < MaxIframes
             /\ IF Suspends(cfg.fetch)
                THEN /\ pending' = Append(pending, CallOf(cfg))
                     /\ gPend' = Append(gPend, FALSE)
                     /\ games' = GamesAtAwait(games, CallOf(cfg))
                     /\ last' = [rec EXCEPT !.outcome = "suspended"]
                     /\ UNCHANGED <<variant, family, iframes, listeners, gIfr, inspector>>
                ELSE /\ CreateGame(CallOf(cfg), FALSE, rec)
                     /\ UNCHANGED <<variant, family, pending, gPend>>

RemoveAt(seq, k) == [j \in 1..(Len(seq) - 1) |-> IF j < k THEN seq[j] ELSE seq[j + 1]]

\* The continuation of the k-th suspended addGame, once its promise settled.
ResumeAddGame(k) ==
    /\ k \in 1..Len(pending)
    /\ CreateGame(pending[k], gPend[k], [Quiet EXCEPT !.op = "resume"])
    /\ pending' = RemoveAt(pending, k)
    /\ gPend' = RemoveAt(gPend, k)
    /\ UNCHANGED <<variant, family>>

----------------------------------------------------------------------------
(* removeGame (variant 1 only: variant 2 defines no removeGame) *)

\* removeGame without its guard: game.iframe of an absent game throws.
RemoveOutcome_noGuard(gs, id) == IF id \in DOMAIN gs THEN "removed" ELSE "threw"

\* Lines 119-123: the guard of removeGame.
RemoveOutcome(gs, id) == IF id \in DOMAIN gs THEN "removed" ELSE "notFound"

\* Line 125: delete this.games[gameId].
Unregister(gs, id) == [g \in DOMAIN gs \ {id} |-> gs[g]]

\* Line 127: removeEventListener is given a fresh bound function, which is no
\* listener of window, so the list of listeners stays as it is.
ListenersAfterRemove(ls, id) == ls

\* removeGame(id).  gPend and gIfr note the call for the addGame calls of this
\* id that have not seen their load event.
removeGame(id) ==
    /\ variant = 1
    /\ id \in GameIds
    /\ gPend' = [k \in 1..Len(pending) |-> gPend[k] \/ pending[k].gameId = id]
    /\ gIfr' = [k \in 1..Len(iframes) |->
                 IF iframes[k].gameId = id /\ ~gIfr[k].loaded
                 THEN [gIfr[k] EXCEPT !.removeIssued = TRUE] ELSE gIfr[k]]
    /\ LET out == RemoveOutcome(games, id)
       IN  IF out = "removed"
           THEN /\ iframes' = [iframes EXCEPT ![games[id].iframe].attached = FALSE]
                /\ games' = Unregister(games, id)
                /\ listeners' = ListenersAfterRemove(listeners, id)
                /\ last' = [Quiet EXCEPT !.op = "removeGame", !.gameId = id,
                                         !.iframe = games[id].iframe, !.outcome = out]
           ELSE /\ last' = [Quiet EXCEPT !.op = "removeGame", !.gameId = id,
                                         !.outcome = out, !.threw = (out = "threw")]
                /\ UNCHANGED <<games, iframes, listeners>>
    /\ UNCHANGED <<variant, family, pending, inspector>>

----------------------------------------------------------------------------
(* iframe.onload *)

Threw(effects) == [effects |-> effects, threw |-> TRUE]
Done(effects) == [effects |-> effects, threw |-> FALSE]

\* postMessage (lines 136-143) / _send (lines 298-307) throws: variant 1 passes
\* game.iframeUrl as targetOrigin, which Window.postMessage parses; variant 2
\* passes "*".
SendThrows(url) == variant = 1 /\ ~URLParses(url)

\* The onload handler of iframe i (lines 97-110, 278-291).  It looks the game
\* up by the gameId of its closure, so it posts to the iframe registered under
\* that id now.  With no such entry the first post is skipped and evaluating
\* this.games[gameId].locale for the second throws a TypeError.
onload(i) ==
    LET id == iframes[i].gameId
    IN  IF id \notin DOMAIN games THEN Threw(<<>>)
        ELSE LET game == games[id]
                 win == iframes[game.iframe].attached
             IN  IF win /\ SendThrows(game.iframeUrl) THEN Threw(<<>>)
                 ELSE Done((IF win
                            THEN << Send(game.iframe, "setParentDomain", 0),
                                    Send(game.iframe, "userDetails", iframes[i].balance) >>
                            ELSE <<>>)
                           \o (IF iframes[i].onGameLoad
                               THEN << Callback(i, "onGameLoad") >> ELSE <<>>))

\* Line 306: _send logs each message it posts; the messages of an onload
\* handler are posted under the gameId of its closure.
RECURSIVE LogSends(_, _, _)
LogSends(insp, id, effects) ==
    IF effects = << >> THEN insp
    ELSE LogSends(IF Head(effects).kind = "send"
                  THEN InspectorLog(insp, id, "SEND", Head(effects).what) ELSE insp,
                  id, Tail(effects))

\* A load event of iframe i.  An attached iframe fires one per navigation
\* ("reload": one after its first); for a detached one this is a load event
\* already queued when it was removed.
Load(i) ==
    /\ i \in 1..Len(iframes)
    /\ LET r == onload(i)
       IN  last' = [Quiet EXCEPT !.op = "load", !.gameId = iframes[i].gameId, !.iframe = i,
                                 !.outcome = IF ~iframes[i].attached THEN "lateLoad"
                                             ELSE IF gIfr[i].loaded THEN "reload" ELSE "load",
                                 !.effects = r.effects, !.threw = r.threw]
    /\ gIfr' = [gIfr EXCEPT ![i].loaded = TRUE]
    /\ inspector' = LogSends(inspector, iframes[i].gameId, onload(i).effects)
    /\ LogsWithin(inspector')
    /\ UNCHANGED <<variant, family, games, iframes, listeners, pending, gPend>>

----------------------------------------------------------------------------
(* The "message" listeners *)

\* A message event: the window it came from (iframe number, 0 for a window
\* that is no iframe of the SDK), event.origin and event.data.
Event(src, origin, data) == [src |-> src, origin |-> origin, data |-> data]

\* The result of a listener: the registry after it, its effects, whether it
\* threw.
Handled(gs, effects, threw) == [games |-> gs, effects |-> effects, threw |-> threw]

\* Lines 156-161: the listener of variant 1 goes on past its origin check.
OriginAllowed(game, ev) == ev.origin = URLOrigin(game.iframeUrl)

\* Lines 176-178: `if (locale) game.locale = locale; if (currency) ...`.
UpdateLocaleAndCurrency(game, data) ==
    [game EXCEPT !.locale = IF data.locale # "" THEN data.locale ELSE @,
                 !.currency = IF data.currency # "" THEN data.currency ELSE @]

\* Variant 1, lines 152-189: handleMessage.bind(this, gameId) on event ev.
\* new URL(game.iframeUrl) throws on a URL that does not parse; destructuring
\* event.data throws on null.
handleMessage(gs, id, ev) ==
    IF id \notin DOMAIN gs THEN Handled(gs, <<>>, FALSE)
    ELSE LET game == gs[id]
         IN  IF ~URLParses(game.iframeUrl) THEN Handled(gs, <<>>, TRUE)
             ELSE IF ~OriginAllowed(game, ev) THEN Handled(gs, <<>>, FALSE)
             ELSE IF ev.data.isNull THEN Handled(gs, <<>>, TRUE)
             ELSE IF ev.data.action = "gameResult"
                  THEN Handled(gs, << Callback(game.iframe, "onGameResult") >>, FALSE)
             ELSE IF ev.data.action = "updateLocaleAndCurrency"
                  THEN Handled([gs EXCEPT ![id] = UpdateLocaleAndCurrency(game, ev.data)],
                               <<>>, FALSE)
             ELSE IF ev.data.action = "error"
                  THEN Handled(gs, << Callback(game.iframe, "onError") >>, FALSE)
             ELSE Handled(gs, <<>>, FALSE)

\* Variant 1: window runs every listener, in registration order, on the
\* event; a listener that throws does not stop the ones after it.
RECURSIVE DispatchV1(_, _, _)
DispatchV1(ls, acc, ev) ==
    IF ls = <<>> THEN acc
    ELSE LET r == handleMessage(acc.games, Head(ls), ev)
         IN  DispatchV1(Tail(ls),
                        Handled(r.games, acc.effects \o r.effects, acc.threw \/ r.threw),
                        ev)

\* Lines 313-316: the game whose iframe.contentWindow is event.source.
FindBySource(gs, src) ==
    { g \in DOMAIN gs : gs[g].iframe = src /\ iframes[src].attached }

\* Variant 2, lines 309-335: _handleMessage, the one listener of the page.
\* The switch has no case for updateLocaleAndCurrency.
_handleMessage(gs, ev) ==
    IF ev.data.isNull \/ ev.data.action = "" THEN Handled(gs, <<>>, FALSE)
    ELSE LET found == FindBySource(gs, ev.src)
         IN  IF found = {} THEN Handled(gs, <<>>, FALSE)
             ELSE LET id == CHOOSE g \in found : TRUE
                      game == gs[id]
                  IN  IF ev.data.action = "gameLoaded"
                      THEN Handled([gs EXCEPT ![id].ready = TRUE], <<>>, FALSE)
                      ELSE IF ev.data.action = "gameResult"
                      THEN Handled(gs, << Callback(game.iframe, "onGameResult") >>, FALSE)
                      ELSE IF ev.data.action = "error"
                      THEN Handled(gs, << Callback(game.iframe, "onError") >>, FALSE)
                      ELSE Handled(gs, <<>>, FALSE)

\* Lines 310-319 and 332: what _handleMessage logs.  A message that resolves
\* to a game is logged as received, whatever its action; an error message is
\* logged a second time, with its text.
InspectorAfterMessage(insp, gs, ev) ==
    IF ev.data.isNull \/ ev.data.action = "" THEN insp
    ELSE LET found == FindBySource(gs, ev.src)
         IN  IF found = {} THEN insp
             ELSE LET id == CHOOSE g \in found : TRUE
                      recv == InspectorLog(insp, id, "RECV", ev.data.action)
                  IN  IF ev.data.action = "error"
                      THEN InspectorError(recv, id, "message") ELSE recv

\* A message event on window.  Any window can post with any origin: an iframe
\* keeps its contentWindow when the document in it navigates elsewhere.
Message(src, origin, data) ==
    /\ src \in 0..Len(iframes)
    /\ LET ev == Event(src, origin, data)
           r == IF variant = 1
                THEN DispatchV1(listeners, Handled(games, <<>>, FALSE), ev)
                ELSE _handleMessage(games, ev)
       IN  /\ games' = r.games
           /\ last' = [Quiet EXCEPT !.op = "message", !.effects = r.effects,
                                    !.threw = r.threw]
           /\ inspector' = IF variant = 2
                            THEN InspectorAfterMessage(inspector, games, ev) ELSE inspector
    /\ LogsWithin(inspector')
    /\ UNCHANGED <<variant, family, iframes, listeners, pending, gPend, gIfr>>

----------------------------------------------------------------------------
(* The page *)

\* The constructors (lines 11-16, 200-214): an empty registry; variant 2
\* registers its one listener, written "*" in the list.
Init ==
    /\ variant \in {1, 2}
    /\ family \in Families
    /\ games = << >>
    /\ iframes = << >>
    /\ listeners = IF variant = 1 THEN << >> ELSE << "*" >>
    /\ pending = << >>
    /\ gPend = << >>
    /\ gIfr = << >>
    /\ inspector = InspectorOff
    /\ last = Quiet

Next ==
    \/ \E cfg \in ConfigsOf(family) : addGame(cfg)
    \/ \E k \in 1..MaxIframes : ResumeAddGame(k)
    \/ \E id \in GameIds : removeGame(id)
    \/ \E i \in 1..MaxIframes : Load(i)
    \/ \E src \in 0..MaxIframes, origin \in Origins, data \in Payloads : Message(src, origin, data)

Spec == Init /\ [][Next]_vars

\* A page that loads variant 2 with options.inspector (lines 202, 211-213).
\* Variant 2 defines no removeGame.
InitInspector ==
    /\ variant = 2
    /\ family = "single"
    /\ games = << >>
    /\ iframes = << >>
    /\ listeners = << "*" >>
    /\ pending = << >>
    /\ gPend = << >>
    /\ gIfr = << >>
    /\ inspector = InspectorOn
    /\ last = Quiet

NextInspector ==
    \/ \E cfg \in ConfigsOf(family) : addGame(cfg)
    \/ \E k \in 1..MaxIframes : ResumeAddGame(k)
    \/ \E i \in 1..MaxIframes : Load(i)
    \/ \E src \in 0..MaxIframes, origin \in Origins, data \in Payloads : Message(src, origin, data)

SpecInspector == InitInspector /\ [][NextInspector]_vars

----------------------------------------------------------------------------
(* Properties *)

\* The positions in a task's effects where the host callback `name` runs.
Invocations(effects, name) ==
    { k \in 1..Len(effects) : effects[k].kind = "cb" /\ effects[k].what = name }

\* The registered games whose iframe's window is src.
SessionsOf(src) == { g \in DOMAIN games : games[g].iframe = src }

\* The message events of the model.
Sources == 0..MaxIframes

\* C1 (routing isolation): a gameResult message sent by the window of iframe
\* src invokes onGameResult of the session of that iframe only, never the
\* onGameResult of another registered session.
C1_RoutingIsolation ==
    [][ \A src \in Sources, origin \in Origins :
          (Message(src, origin, Payload("gameResult", "", "")) /\ SessionsOf(src) # {})
          => \A k \in Invocations(last'.effects, "onGameResult") :
                last'.effects[k].who = src ]_vars

\* C2 (session-id uniqueness): an addGame call for an id that is registered,
\* or that a suspended addGame call holds, fails and changes neither the
\* registry nor the suspended calls; and no addGame call, resumed or not,
\* changes the registry entry of a session that is already registered.
C2_DuplicateAddGameFails ==
    [][ /\ \A cfg \in ConfigsOf(family) :
             ( /\ addGame(cfg)
               /\ \/ cfg.gameId \in DOMAIN games
                  \/ \E k \in 1..Len(pending) : pending[k].gameId = cfg.gameId )
             => /\ last'.outcome \notin {"suspended", "created"}
                /\ UNCHANGED <<games, iframes, pending>>
        /\ last'.op \in {"addGame", "resume"}
             => \A g \in DOMAIN games : g \in DOMAIN games' /\ games'[g] = games[g] ]_vars

\* C3 (no load callback after removal): when removeGame(id) was called after
\* addGame(id) began and before the load event of its iframe was handled,
\* handling a load event of that iframe does not invoke its onGameLoad.
C3_NoGameLoadAfterRemove ==
    (last.op = "load" /\ gIfr[last.iframe].removeIssued)
    => \A k \in Invocations(last.effects, "onGameLoad") : last.effects[k].who # last.iframe

\* C4 (unroutable message): a message from a window that is the iframe of no
\* registered session invokes no callback and leaves the registry as it is.
C4_UnresolvedSenderDropped ==
    [][ \A src \in Sources, origin \in Origins, data \in Payloads :
          (Message(src, origin, data) /\ SessionsOf(src) = {})
          => (last'.effects = << >> /\ games' = games) ]_vars

\* C5 (handshake): handling the load event of the iframe of a registered
\* session posts exactly two messages to that iframe, setParentDomain and
\* then userDetails, and then invokes the session's onGameLoad (when the host
\* gave one) once.
C5_HandshakeOrder ==
    (last.op = "load" /\ last.iframe \in { games[g].iframe : g \in DOMAIN games })
    => LET i == last.iframe
       IN  last.effects =
             << Send(i, "setParentDomain", 0), Send(i, "userDetails", iframes[i].balance) >>
             \o (IF iframes[i].onGameLoad THEN << Callback(i, "onGameLoad") >> ELSE << >>)

\* C6 (partial update): an updateLocaleAndCurrency message from the iframe of
\* a registered session, with the origin of that session's URL, sets the
\* session's locale iff the payload has one and its currency iff the payload
\* has one.
C6_PartialUpdate ==
    [][ \A src \in Sources, origin \in Origins, data \in Payloads :
          (Message(src, origin, data) /\ data.action = "updateLocaleAndCurrency")
          => \A g \in SessionsOf(src) :
                (URLParses(games[g].iframeUrl) /\ URLOrigin(games[g].iframeUrl) = origin)
                => /\ games'[g].locale =
                        (IF data.locale # "" THEN data.locale ELSE games[g].locale)
                   /\ games'[g].currency =
                        (IF data.currency # "" THEN data.currency ELSE games[g].currency) ]_vars

\* C7 (balance fetch fails): an addGame whose getUserBalance threw or rejected
\* registers its session with its new iframe and invokes no callback; its
\* onload closure (and, in variant 2, its registry entry) holds balance 0, and
\* every userDetails message that closure posts carries balance 0, with no
\* onError invoked.
C7_FailedFetchGivesZeroBalance ==
    /\ (last.outcome = "created" /\ gIfr[last.iframe].fetchFailed)
       => /\ last.gameId \in DOMAIN games
          /\ games[last.gameId].iframe = last.iframe
          /\ games[last.gameId].balance = 0
          /\ iframes[last.iframe].balance = 0
          /\ last.effects = << >>
          /\ ~last.threw
    /\ (last.op = "load" /\ gIfr[last.iframe].fetchFailed)
       => /\ \A k \in 1..Len(last.effects) :
                last.effects[k].what = "userDetails" => last.effects[k].bal = 0
          /\ Invocations(last.effects, "onError") = {}

\* C7 witness: the handshake of a session whose getUserBalance failed has
\* been posted, userDetails included.
C7_Witness ==
    /\ last.op = "load"
    /\ gIfr[last.iframe].fetchFailed
    /\ \E k \in 1..Len(last.effects) :
          last.effects[k].what = "userDetails" /\ last.effects[k].bal = 0

\* C8 (remove of an absent id): removeGame(id) for an id that is not in the
\* registry reports not-found, throws nothing and leaves the registry, the
\* iframes and the listeners as they are.
C8_RemoveAbsentIsNoop ==
    [][ \A id \in GameIds :
          (removeGame(id) /\ id \notin DOMAIN games)
          => /\ last'.outcome = "notFound"
             /\ ~last'.threw
             /\ UNCHANGED <<games, iframes, listeners>> ]_vars

\* C8 witness: a second removeGame(id) right after a successful one, with
\* another session still registered.
C8_Witness ==
    /\ last.op = "removeGame"
    /\ last.outcome = "notFound"
    /\ \E i \in 1..Len(iframes) : iframes[i].gameId = last.gameId /\ ~iframes[i].attached
    /\ DOMAIN games # {}

\* C9 (configuration errors): an addGame call whose config misses a required
\* field, has a URL that is no absolute URL or names a container that is not
\* on the page returns at once: it neither suspends nor creates a session.
C9_InvalidConfigFailsFast ==
    (last.op = "addGame" /\ ~last.cfgOk)
    => last.outcome \in {"invalid", "duplicate", "noContainer"}

\* C10 (origin enforcement): a message from the iframe of a registered
\* session whose origin is not the origin of that session's iframeUrl invokes
\* no callback and leaves the registry as it is.
C10_OriginEnforced ==
    [][ \A src \in Sources, origin \in Origins, data \in Payloads :
          ( /\ Message(src, origin, data)
            /\ \E g \in SessionsOf(src) :
                  URLParses(games[g].iframeUrl) /\ URLOrigin(games[g].iframeUrl) # origin )
          => (last'.effects = << >> /\ games' = games) ]_vars

\* C11 (no handler throws): no task of the page -- a host call, the
\* continuation of an addGame, a load event (one handled after removeGame
\* included), a message event (one with a null payload included) -- ends in
\* an uncaught exception.
C11_NoHandlerThrows == ~last.threw

\* The registered games that accept a message from window src with this
\* origin: src is the window of the game's attached iframe and the origin is
\* the one of the game's URL.
AcceptedBy(src, origin) ==
    { g \in SessionsOf(src) :
        /\ iframes[src].attached
        /\ URLParses(games[g].iframeUrl)
        /\ URLOrigin(games[g].iframeUrl) = origin }

\* C12 (error message): an error message accepted for a session invokes that
\* session's onError exactly once and leaves the registry, the iframes and
\* the listeners as they are.
C12_ErrorInvokesOnErrorOnce ==
    [][ \A src \in Sources, origin \in Origins :
          (Message(src, origin, Payload("error", "", "")) /\ AcceptedBy(src, origin) # {})
          => /\ Cardinality({ k \in Invocations(last'.effects, "onError") :
                                last'.effects[k].who = src }) = 1
             /\ UNCHANGED <<games, iframes, listeners>> ]_vars

C14_ReadyNeverReverts ==
    [][ \A g \in DOMAIN games :
          games[g].ready => (g \notin DOMAIN games' \/ games'[g].ready) ]_vars

\* C15 (listeners do not accumulate): window never holds two message
\* listeners bound to one id, and right after removeGame(id) removed a
\* session it holds no listener bound to id.
C15_ListenersDoNotAccumulate ==
    /\ \A j, k \in 1..Len(listeners) : listeners[j] = listeners[k] => j = k
    /\ (last.op = "removeGame" /\ last.outcome = "removed")
       => \A k \in 1..Len(listeners) : listeners[k] # last.gameId

\* C17 (independent sessions): a message from the window of one session's
\* iframe leaves the registry entry of every other registered session as it
\* is.
C17_OtherSessionsUntouched ==
    [][ \A src \in Sources, origin \in Origins, data \in Payloads :
          (Message(src, origin, data) /\ SessionsOf(src) # {})
          => \A g \in DOMAIN games \ SessionsOf(src) :
                g \in DOMAIN games' /\ games'[g] = games[g] ]_vars

\* C20 (no orphaned iframe): every attached iframe is the iframe of exactly
\* one registry entry, and the registry entries reference distinct attached
\* iframes.
C20_NoOrphanedIframe ==
    /\ \A i \in 1..Len(iframes) :
          iframes[i].attached => Cardinality({ g \in DOMAIN games : games[g].iframe = i }) = 1
    /\ \A g \in DOMAIN games : iframes[games[g].iframe].attached
    /\ \A g, h \in DOMAIN games : games[g].iframe = games[h].iframe => g = h

\* C18 (onGameLoad once): a load event of an iframe whose first load event
\* has been handled (the document in the iframe reloaded or navigated) does
\* not invoke the onGameLoad of that iframe's addGame again.
C18_GameLoadOnce ==
    (last.op = "load" /\ last.outcome = "reload")
    => \A k \in Invocations(last.effects, "onGameLoad") : last.effects[k].who # last.iframe

\* An addGame of this id is suspended at its await.
Suspended(id) == \E k \in 1..Len(pending) : pending[k].gameId = id

\* No addGame of this id has created an iframe.
NoIframeOf(id) == \A i \in 1..Len(iframes) : iframes[i].gameId # id

C19_LogNewestFirstAndCapped ==
    [][ \A g \in DOMAIN inspector'.games :
          LET new == inspector'.games[g]
          IN  /\ Len(new) <= RenderCap
              /\ (g \in DOMAIN inspector.games /\ new # inspector.games[g])
                 => \/ new = << >>
                    \/ \E n \in 1..2 :
                          /\ Len(new) = Len(inspector.games[g]) + n
                          /\ SubSeq(new, n + 1, Len(new)) = inspector.games[g] ]_vars

====
